---- MODULE Spec2Model ----
(***************************************************************************)
(* Resource janitor: selection of stale images / instances (blacklist,     *)
(* singleton and age stages) and the parallel deletion engine.             *)
(*                                                                         *)
(* Two generations of the selection code are modelled:                     *)
(*   "janitor" : tools/janitor  (JanitorMetadata.Refresh / Blacklist /     *)
(*               Singletons / Expired, driven by deleteImages and          *)
(*               deleteInstances)                                          *)
(*   "utils"   : tools/resource-janitor (GetOldAndNonSingletonImages /     *)
(*               GetOldAndNonSingletonInstances with blacklist and         *)
(*               deleteSingletons, driven by cmd/janitor/main.go)          *)
(*                                                                         *)
(* Names and regular expressions are sequences of one-character strings;   *)
(* a blacklist pattern p stands for the anchored expression "^p".          *)
(***************************************************************************)
EXTENDS Integers, Sequences, FiniteSets, TLC

VARIABLES
    variant,            \* "janitor" | "utils": which generation of the code runs
    kind,               \* "image" | "instance"
    cloud,              \* what the listing API returns, in the order returned
    cfgBlacklist,       \* blacklistConfig.Images / .Instances (sequence of patterns)
    cfgDeleteSingletons,\* --delete-singletons
    cfgNotDryRun,       \* --not-dry-run
    cfgTooOld,          \* tooOld = GetTooOldTime(olderThan)
    cfgDelimiter,       \* --image-delimiter
    jm,                 \* the JanitorMetadata value (janitor) / the arguments (utils)
    Items,              \* i.Items (janitor); allX / nonSingletonX / result (utils)
    prev,               \* Items as it was when the last stage started
    trace,              \* the stages run so far, in order
    pc,                 \* position of the pipeline goroutine
    engineInvoked,      \* delete.Parallel / ParallelImages / ParallelInstances called
    issued,             \* resources for which a delete call was issued
    (* the deletion engine: delete.Parallel and its workers *)
    workers,            \* Parallel's argument workers
    jobs,               \* number of ResourceDeleter values Delete will send (jobs 1..jobs)
    ePc,                \* Parallel: "start" | "produce" | "wait" | "returned" | "exited"
    spawned,            \* workers started so far by the loop of Parallel
    queue,              \* the buffered channel r, capacity workers
    closed,             \* close(d) has run
    sent,               \* jobs sent on the channel so far
    wg,                 \* the WaitGroup counter
    wpc,                \* per worker: "unstarted" | "recv" | "call" | "sleep" | "poll" | "stopped"
    wjob,               \* per worker: the job (call) it holds, 0 if none
    op,                 \* per job: the operation as last returned to its worker
    calls,              \* per job: number of call.Do() made
    owner,              \* per job: the worker that received it, 0 if none
    outcome,            \* per job: "none" | "deleted" | "callError" | "queryError"
    ret,                \* Parallel's return value: "none" | "nil" | "error"
    (* history of the engine run *)
    takers,             \* per job: the workers that received it from the channel
    actors,             \* per job: the workers that ran call.Do() or a status query for it
    lateQuery,          \* per job: a status query was made after DONE or FAILED was seen
    respScope,          \* which of Zone / Region the delete responses of this run carry
    endpoint,           \* per job: the queryDeleteOperation the worker built and polls
    (* a second selection over the same snapshot *)
    run,                \* 1 | 2: which selection run of the pipeline this is
    firstItems,         \* the eligible sequence the first run ended with
    (* main and its two pipeline goroutines *)
    mPc,                \* main: "idle" | "start" | "wait" | "returned" | "exited"
    mWg,                \* main's WaitGroup counter
    gPc,                \* per kind: position of deleteImages / deleteInstances
    gItems,             \* per kind: "none" | "empty" | "nonempty", len(Items) after selection
    signals             \* per kind: number of wg.Done() calls made

rvars == <<run, firstItems>>

pvars == <<variant, kind, cloud, cfgBlacklist, cfgDeleteSingletons, cfgNotDryRun,
           cfgTooOld, cfgDelimiter, jm, Items, prev, trace, pc, engineInvoked, issued,
           rvars>>

mvars == <<mPc, mWg, gPc, gItems, signals>>

hvars == <<takers, actors, lateQuery>>

qvars == <<respScope, endpoint>>

evars == <<workers, jobs, ePc, spawned, queue, closed, sent, wg, wpc, wjob, op,
           calls, owner, outcome, ret, hvars, qvars>>

vars == <<pvars, evars, mvars>>

cfgVars == <<variant, kind, cloud, cfgBlacklist, cfgDeleteSingletons, cfgNotDryRun,
             cfgTooOld, cfgDelimiter>>

----------------------------------------------------------------------------
(* Bounds of the model *)

MaxItems == 3          \* resources in one listing
MaxStamp == 2          \* creation times are 0..MaxStamp
MaxPatterns == 2       \* blacklist patterns in one configuration

PageSize == 2          \* items the listing API returns per page

(* creationTimestamp strings: <<"T", n>> is a well-formed RFC3339 time n,     *)
(* BadStamp is a string time.Parse rejects.                                   *)
Stamp(n) == <<"T", n>>
BadStamp == <<"?">>
Stamps == {Stamp(n) : n \in 0..MaxStamp} \cup {BadStamp}

Name_w1 == <<"w", "-", "1">>
Name_w2 == <<"w", "-", "2">>
Names == {Name_w1, Name_w2, <<"a", "-", "1">>}

Pattern_w == <<"w">>
Pattern_w1 == <<"w", "-", "1">>
Patterns == {Pattern_w, Pattern_w1}

(* Names for the study of naming schemes: with and without each delimiter, *)
(* and three resources of one scheme                                       *)
Delimiters == {"-", "_"}
Name_a1 == <<"a", "-", "1">>
Name_a2 == <<"a", "-", "2">>
Name_a3 == <<"a", "-", "3">>
Name_b1 == <<"b", "-", "1">>
Name_a_1 == <<"a", "_", "1">>
Name_b_1 == <<"b", "_", "1">>
Name_c == <<"c">>
WideNames == {Name_a1, Name_a2, Name_a3, Name_b1, Name_a_1, Name_b_1, Name_c}

Zones == <<"z1", "z2">>
ZoneSet == {Zones[i] : i \in 1..Len(Zones)}

SeqsUpTo(S, n) == UNION {[1..k -> S] : k \in 0..n}

----------------------------------------------------------------------------
(* Pure helpers *)

(* strings.Split(a, d) for a one-character delimiter d *)
RECURSIVE Split(_, _)
Split(a, d) ==
    IF \A i \in 1..Len(a) : a[i] # d
    THEN <<a>>
    ELSE LET i == CHOOSE i \in 1..Len(a) :
                      a[i] = d /\ \A k \in 1..(i-1) : a[k] # d
         IN  <<SubSeq(a, 1, i-1)>> \o Split(SubSeq(a, i+1, Len(a)), d)

(* strings.Join(parts, d) *)
RECURSIVE Join(_, _)
Join(parts, d) ==
    IF Len(parts) = 0 THEN <<>>
    ELSE IF Len(parts) = 1 THEN parts[1]
    ELSE parts[1] \o <<d>> \o Join(Tail(parts), d)

(* A basename that is the whole name when the name holds no delimiter *)
GetResourceBasenameWhole(a, delimiter) ==
    LET aSplit == Split(a, delimiter)
    IN  IF Len(aSplit) = 1 THEN a
        ELSE Join(SubSeq(aSplit, 1, Len(aSplit) - 1), delimiter)

(* utils.GetResourceBasename / getResourceName *)
GetResourceBasename(a, delimiter) ==
    LET aSplit == Split(a, delimiter)
    IN  Join(SubSeq(aSplit, 1, Len(aSplit) - 1), delimiter)

(* utils.ParseCreationTimestamp / parseCreationTimestamp: time.Parse(RFC3339, s) *)
ParseCreationTimestamp(s) ==
    IF Len(s) = 2 /\ s[1] = "T"
    THEN [err |-> FALSE, stamp |-> s[2]]
    ELSE [err |-> TRUE, stamp |-> 0]

(* regexp.MustCompile(p).MatchString(name) for p = "^<prefix>" *)
MatchString(p, name) ==
    Len(p) <= Len(name) /\ SubSeq(name, 1, Len(p)) = p

(* The naming-scheme key of a resource under delimiter d *)
Scheme(r, d) == GetResourceBasename(r.name, d)

RECURSIVE Concat(_)
Concat(ss) == IF ss = <<>> THEN <<>> ELSE Head(ss) \o Concat(Tail(ss))

----------------------------------------------------------------------------
(* Resource Lister *)

(* The pages one list call chain returns: at least one page, PageSize items *)
(* per page, the last page without a NextPageToken.                         *)
(* A lister that stops after the first page *)
ChunkFirstPage(s, n) == <<SubSeq(s, 1, IF Len(s) <= n THEN Len(s) ELSE n)>>

RECURSIVE Chunk(_, _)
Chunk(s, n) ==
    IF Len(s) <= n THEN <<s>>
    ELSE <<SubSeq(s, 1, n)>> \o Chunk(SubSeq(s, n+1, Len(s)), n)

InZone(c, z) == SelectSeq(c, LAMBDA r : r.zone = z)

(* images: for { il := ilc.Do(); append items; follow NextPageToken } *)
ListImages(c) == Concat(Chunk(c, PageSize))

(* instances: the same loop once per zone of Zones.List *)
ListInstances(c) ==
    Concat([i \in 1..Len(Zones) |-> Concat(Chunk(InZone(c, Zones[i]), PageSize))])

ListAll(c, k) == IF k = "image" THEN ListImages(c) ELSE ListInstances(c)

----------------------------------------------------------------------------
(* Eligibility filter, janitor generation (JanitorMetadata) *)

(* NewJanitorMetadata(s, p, e, d, b, n): the struct literal sets Project,      *)
(* NameDelimiter, DeleteSingletons, Service and ExpiredBefore; the parameter b *)
(* is not used, so BlacklistPatterns keeps its zero value.                     *)
NewJanitorMetadata(e, d, b, n) ==
    [ExpiredBefore |-> e, DeleteSingletons |-> d,
     BlacklistPatterns |-> <<>>, NameDelimiter |-> n]

(* The inner loop of Blacklist / of the listing loop of GetOldAndNonSingleton{Images,Instances}: *)
(* one append of the resource for every pattern that does not match it.         *)
AppendPerPattern(in, patterns) ==
    [k \in 1..Len(SelectSeq(patterns, LAMBDA p : ~MatchString(p, in.name))) |-> in]

RECURSIVE BlacklistLoop(_, _)
BlacklistLoop(items, patterns) ==
    IF items = <<>> THEN <<>>
    ELSE AppendPerPattern(Head(items), patterns)
             \o BlacklistLoop(Tail(items), patterns)

(* JanitorMetadata.Blacklist: the Info records it logs, one for every pair  *)
(* of a resource and a pattern that matches it ("... is blacklisted")       *)
BlacklistRecordsOf(in, patterns) ==
    [k \in 1..Len(SelectSeq(patterns, LAMBDA p : MatchString(p, in.name))) |->
        [stage |-> "blacklist", res |-> in, verdict |-> "blacklisted"]]

RECURSIVE BlacklistLog(_, _)
BlacklistLog(items, patterns) ==
    IF Len(patterns) = 0 \/ items = <<>> THEN <<>>
    ELSE BlacklistRecordsOf(Head(items), patterns)
             \o BlacklistLog(Tail(items), patterns)

(* JanitorMetadata.Blacklist: the new value of i.Items *)
Blacklist(items, patterns) ==
    IF Len(patterns) = 0 THEN items ELSE BlacklistLoop(items, patterns)

(* A keyed loop that follows the iteration order of its map: in a second run *)
(* the last resource seen of a naming scheme is the one kept back             *)
KeyedLoopUnstable(items, nsm, d) ==
    LET same(i, j) == Scheme(items[i], d) = Scheme(items[j], d)
        idx == {i \in 1..Len(items) :
                   IF run = 1
                   THEN Scheme(items[i], d) \in nsm \/ \E j \in 1..(i-1) : same(i, j)
                   ELSE \E j \in (i+1)..Len(items) : same(i, j)}
        nth(n) == CHOOSE i \in idx : Cardinality({k \in idx : k < i}) = n - 1
    IN  [n \in 1..Cardinality(idx) |-> items[nth(n)]]

(* The keyed singleton loop: the first resource seen of a naming scheme is    *)
(* kept out of the result, every later one of the scheme is appended.         *)
RECURSIVE KeyedLoop(_, _, _)
KeyedLoop(items, nsm, d) ==
    IF items = <<>> THEN <<>>
    ELSE LET key == Scheme(Head(items), d)
         IN  IF key \notin nsm
             THEN KeyedLoop(Tail(items), nsm \cup {key}, d)
             ELSE <<Head(items)>> \o KeyedLoop(Tail(items), nsm, d)

(* JanitorMetadata.Singletons: the per-resource Info records of its loop,    *)
(* "excluded from deletion" for the first of a scheme, "eligible for        *)
(* deletion" for every later one                                            *)
RECURSIVE KeyedLog(_, _, _)
KeyedLog(items, nsm, d) ==
    IF items = <<>> THEN <<>>
    ELSE LET key == Scheme(Head(items), d)
         IN  IF key \notin nsm
             THEN <<[stage |-> "singleton", res |-> Head(items), verdict |-> "ineligible"]>>
                      \o KeyedLog(Tail(items), nsm \cup {key}, d)
             ELSE <<[stage |-> "singleton", res |-> Head(items), verdict |-> "eligible"]>>
                      \o KeyedLog(Tail(items), nsm, d)

SingletonsLog(items, j) == KeyedLog(items, {}, j.NameDelimiter)

(* JanitorMetadata.Singletons: the new value of i.Items; i.DeleteSingletons *)
(* is not read.                                                             *)
Singletons(items, j) == KeyedLoop(items, {}, j.NameDelimiter)

(* JanitorMetadata.Expired: whether it ends in log.Fatal *)
ExpiredFatal(items) ==
    \E i \in 1..Len(items) : ParseCreationTimestamp(items[i].ts).err

(* JanitorMetadata.Expired: the local list inl / iml the loop builds.        *)
(* instances compare stamp.Before(i.ExpiredBefore), images stamp.Before(stamp) *)
ExpiredLocal(items, j, k) ==
    SelectSeq(items, LAMBDA r :
        LET stamp == ParseCreationTimestamp(r.ts).stamp
        IN  IF k = "instance" THEN ~(stamp < j.ExpiredBefore)
                              ELSE ~(stamp < stamp))

(* JanitorMetadata.Expired: the Info records of its loop when no timestamp   *)
(* fails to parse: "expired" or "fresh" for every resource                   *)
ExpiredLog(items, j, k) ==
    [n \in 1..Len(items) |->
        LET stamp == ParseCreationTimestamp(items[n].ts).stamp
            before == IF k = "instance" THEN stamp < j.ExpiredBefore ELSE stamp < stamp
        IN  [stage |-> "age", res |-> items[n],
             verdict |-> IF before THEN "expired" ELSE "fresh"]]

(* JanitorMetadata.Expired: the new value of i.Items. The local list is never *)
(* assigned to i.Items.                                                       *)
Expired(items, j, k) ==
    LET inl == ExpiredLocal(items, j, k) IN items

----------------------------------------------------------------------------
(* Eligibility filter, utils generation (GetOldAndNonSingleton{Images,Instances}) *)

(* The arguments main.go passes to GetOldAndNonSingletonImages / Instances *)
UtilsArgs(e, d, b, n) ==
    [ExpiredBefore |-> e, DeleteSingletons |-> d,
     BlacklistPatterns |-> b, NameDelimiter |-> n]

(* The listing loop with its per-pattern append: allImages / allInstances *)
UtilsListAll(c, k, blacklist) == BlacklistLoop(ListAll(c, k), blacklist)

(* getNonSingletonImages / getNonSingletonInstances (keyed) *)
getNonSingleton(list, nameDelimiter) == KeyedLoop(list, {}, nameDelimiter)

(* if !deleteSingletons { getNonSingleton... } else { all } *)
UtilsSingletonStage(all, deleteSingletons, nameDelimiter) ==
    IF ~deleteSingletons THEN getNonSingleton(all, nameDelimiter) ELSE all

----------------------------------------------------------------------------
(* Eligibility filter, adjacent-pair generation (pkg/utils/utils.go) *)

(* The arguments of GetOldAndNonSingletonImages(computeService, project, t, *)
(* nameDelimiter): no blacklist and no deleteSingletons                     *)
PairsArgs(e, n) ==
    [ExpiredBefore |-> e, DeleteSingletons |-> FALSE,
     BlacklistPatterns |-> <<>>, NameDelimiter |-> n]

(* resourceNamesMatch(a, b, delimiter): both names are split and joined on *)
(* "-"; the parameter delimiter is not used.                               *)
resourceNamesMatch(a, b, delimiter) ==
    LET aSplit == Split(a, "-")
        aName == Join(SubSeq(aSplit, 1, Len(aSplit) - 1), "-")
        bSplit == Split(b, "-")
        bName == Join(SubSeq(bSplit, 1, Len(bSplit) - 1), "-")
    IN  aName = bName

(* The loop of getNonSingletonImages / getNonSingletonInstances from index  *)
(* i on (1-based): singleton is the tracking variable (<<>> for the empty   *)
(* resource), nonSingletons the result so far. imageList[i-1] is appended   *)
(* when it matches imageList[i]; singleton only selects the log line.       *)
RECURSIVE PairLoop(_, _, _, _, _)
PairLoop(list, i, singleton, nonSingletons, d) ==
    IF i > Len(list) THEN nonSingletons
    ELSE IF i = 1 THEN PairLoop(list, 2, list[1].name, nonSingletons, d)
    ELSE IF resourceNamesMatch(list[i-1].name, list[i].name, d)
    THEN PairLoop(list, i + 1, <<>>, Append(nonSingletons, list[i-1]), d)
    ELSE PairLoop(list, i + 1, list[i].name, nonSingletons, d)

(* getNonSingletonImages / getNonSingletonInstances (adjacent pairs) *)
getNonSingletonPairs(list, nameDelimiter) ==
    PairLoop(list, 1, <<>>, <<>>, nameDelimiter)

(* getOld with an inclusive comparison (stamp <= t) *)
getOldLenient(i, t) ==
    IF \E n \in 1..Len(i) : ParseCreationTimestamp(i[n].ts).err
    THEN [err |-> TRUE, items |-> <<>>]
    ELSE [err |-> FALSE,
          items |-> SelectSeq(i, LAMBDA r : ParseCreationTimestamp(r.ts).stamp <= t)]

(* getOldImages / getOldInstances: (result, err) *)
getOld(i, t) ==
    IF \E n \in 1..Len(i) : ParseCreationTimestamp(i[n].ts).err
    THEN [err |-> TRUE, items |-> <<>>]
    ELSE [err |-> FALSE,
          items |-> SelectSeq(i, LAMBDA r : ParseCreationTimestamp(r.ts).stamp < t)]

----------------------------------------------------------------------------
(* The deletion engine: state *)

MaxWorkers == 2        \* largest value of the workers flag explored
MaxJobs == 3           \* largest number of deletion jobs in one engine run

Workers == 1..workers
Jobs == 1..jobs

(* main is not modelled: a pipeline or an engine run is studied on its own *)
MainIdle ==
    /\ mPc = "idle" /\ mWg = 0 /\ gPc = <<>> /\ gItems = <<>> /\ signals = <<>>

(* No engine run is in progress *)
EngineIdle ==
    /\ workers = 0 /\ jobs = 0 /\ ePc = "idle" /\ spawned = 0
    /\ queue = <<>> /\ closed = FALSE /\ sent = 0 /\ wg = 0
    /\ wpc = <<>> /\ wjob = <<>> /\ op = <<>> /\ calls = <<>>
    /\ owner = <<>> /\ outcome = <<>> /\ ret = "none"
    /\ takers = <<>> /\ actors = <<>> /\ lateQuery = <<>>
    /\ respScope = "none" /\ endpoint = <<>>

----------------------------------------------------------------------------
(* The pipeline goroutine: deleteImages / deleteInstances *)

(* A pipeline that ignores the flag *)
InvokesEngineAlways(notDryRun) == TRUE

(* if notDryRun { delete.Parallel... } *)
InvokesEngine(notDryRun) == notDryRun

ZoneIdx(z) == IF z = "" THEN 0 ELSE CHOOSE i \in 1..Len(Zones) : Zones[i] = z

(* The listings the API can return. Names are unique per project (images) or  *)
(* per zone (instances); a list call with OrderBy("creationTimestamp desc")    *)
(* returns newest first. The janitor generation orders both kinds, the utils   *)
(* generation orders images only. At most one resource of a listing carries   *)
(* an unparsable creation timestamp.                                          *)
Resources(k) ==
    [name : Names, ts : Stamps, zone : IF k = "image" THEN {""} ELSE ZoneSet]

Ordered(v, k) == v = "janitor" \/ k = "image"

Newer(a, b) ==
    LET pa == ParseCreationTimestamp(a.ts)
        pb == ParseCreationTimestamp(b.ts)
    IN  pa.err \/ pb.err \/ pa.stamp >= pb.stamp

Listing(c, v, k) ==
    /\ \A i, j \in 1..Len(c) :
          i < j => /\ ~(c[i].name = c[j].name /\ c[i].zone = c[j].zone)
                   /\ ~(c[i].ts = BadStamp /\ c[j].ts = BadStamp)
                   /\ ZoneIdx(c[i].zone) <= ZoneIdx(c[j].zone)
                   /\ (Ordered(v, k) /\ c[i].zone = c[j].zone) => Newer(c[i], c[j])

Init ==
    /\ variant \in {"janitor", "utils"}
    /\ kind \in {"image", "instance"}
    /\ cloud \in {c \in SeqsUpTo(Resources(kind), MaxItems) : Listing(c, variant, kind)}
    /\ cfgBlacklist \in {b \in SeqsUpTo(Patterns, MaxPatterns) :
                            \A i, j \in 1..Len(b) : i < j => b[i] # b[j]}
    /\ cfgDeleteSingletons \in BOOLEAN
    /\ cfgNotDryRun \in BOOLEAN
    /\ cfgTooOld = MaxStamp - 1
    /\ cfgDelimiter = "-"
    /\ jm = IF variant = "janitor"
            THEN NewJanitorMetadata(cfgTooOld, cfgDeleteSingletons, cfgBlacklist, cfgDelimiter)
            ELSE UtilsArgs(cfgTooOld, cfgDeleteSingletons, cfgBlacklist, cfgDelimiter)
    /\ Items = <<>>
    /\ prev = <<>>
    /\ trace = <<>>
    /\ pc = IF variant = "janitor" THEN "Refresh" ELSE "List"
    /\ engineInvoked = FALSE
    /\ issued = <<>>
    /\ run = 1
    /\ firstItems = <<>>
    /\ EngineIdle
    /\ MainIdle

Stage(name, items, next) ==
    /\ prev' = Items
    /\ Items' = items
    /\ trace' = Append(trace, name)
    /\ pc' = next
    /\ UNCHANGED <<cfgVars, jm, engineInvoked, issued, evars, rvars, mvars>>

Die ==
    /\ pc' = "Fatal"
    /\ UNCHANGED <<cfgVars, jm, Items, prev, trace, engineInvoked, issued, evars, rvars, mvars>>

(* The function returns (nil, err) to deleteImages / deleteInstances *)
ReturnErr(e) ==
    /\ pc' = e
    /\ UNCHANGED <<cfgVars, jm, Items, prev, trace, engineInvoked, issued, evars, rvars, mvars>>

(* i.Refresh(): a failed list call ends in log.Fatal *)
JRefresh ==
    /\ variant = "janitor" /\ pc = "Refresh"
    /\ \E ok \in BOOLEAN :
          IF ok THEN Stage("list", ListAll(cloud, kind), "Blacklist") ELSE Die

(* i.Blacklist() *)
JBlacklist ==
    /\ variant = "janitor" /\ pc = "Blacklist"
    /\ Stage("blacklist", Blacklist(Items, jm.BlacklistPatterns), "Singletons")

(* i.Singletons() *)
JSingletons ==
    /\ variant = "janitor" /\ pc = "Singletons"
    /\ Stage("singleton", Singletons(Items, jm), "Expired")

(* i.Expired() *)
JExpired ==
    /\ variant = "janitor" /\ pc = "Expired"
    /\ IF ExpiredFatal(Items) THEN Die
       ELSE Stage("age", Expired(Items, jm, kind), "Check")

(* if len(i.Items) == 0 { wg.Done(); return }; if notDryRun { ... }; wg.Done() *)
JCheck ==
    /\ variant = "janitor" /\ pc = "Check"
    /\ pc' = IF Len(Items) # 0 /\ InvokesEngine(cfgNotDryRun) THEN "Parallel" ELSE "Done"
    /\ UNCHANGED <<cfgVars, jm, Items, prev, trace, engineInvoked, issued, evars, rvars, mvars>>

(* GetOldAndNonSingleton{Images,Instances}: the listing loop; a failed page *)
(* request returns (nil, err); for instances a failed Zones.List ends in    *)
(* log.Fatalf                                                               *)
UList ==
    /\ variant = "utils" /\ pc = "List"
    /\ \E res \in {"ok", "pageError"} \cup (IF kind = "instance" THEN {"zonesError"} ELSE {}) :
          IF res = "ok"
          THEN Stage("list+blacklist",
                     UtilsListAll(cloud, kind, jm.BlacklistPatterns), "Singletons")
          ELSE IF res = "pageError" THEN ReturnErr("ListError")
          ELSE Die

(* GetOldAndNonSingleton{Images,Instances}: the singleton stage *)
USingletons ==
    /\ variant = "utils" /\ pc = "Singletons"
    /\ Stage(IF ~jm.DeleteSingletons THEN "singleton" ELSE "skip",
             UtilsSingletonStage(Items, jm.DeleteSingletons, jm.NameDelimiter), "Old")

(* GetOldAndNonSingleton{Images,Instances}: getOld...; an error is returned *)
(* as (nil, err)                                                            *)
UOld ==
    /\ variant = "utils" /\ pc = "Old"
    /\ LET r == getOld(Items, jm.ExpiredBefore)
       IN  IF r.err THEN ReturnErr("AgeError") ELSE Stage("age", r.items, "Check")

(* main.go: if err != nil { log.Fatalf("unable to get list of ...") } *)
UFatal ==
    /\ variant = "utils" /\ pc \in {"ListError", "AgeError"}
    /\ pc' = "MainFatal"
    /\ UNCHANGED <<cfgVars, jm, Items, prev, trace, engineInvoked, issued, evars, rvars, mvars>>

(* main.go: if notDryRun { delete.ParallelX(...) }; wg.Done() *)
UCheck ==
    /\ variant = "utils" /\ pc = "Check"
    /\ pc' = IF InvokesEngine(cfgNotDryRun) THEN "Parallel" ELSE "Done"
    /\ UNCHANGED <<cfgVars, jm, Items, prev, trace, engineInvoked, issued, evars, rvars, mvars>>

(* The deletion engine run as a whole (its steps are EngineSpec): the       *)
(* producer enqueues one call per element of Items and a worker issues each. *)
ParallelDelete ==
    /\ pc = "Parallel"
    /\ engineInvoked' = TRUE
    /\ issued' = Items
    /\ pc' = "Done"
    /\ UNCHANGED <<cfgVars, jm, Items, prev, trace, evars, rvars, mvars>>

Next ==
    \/ JRefresh \/ JBlacklist \/ JSingletons \/ JExpired \/ JCheck
    \/ UList \/ USingletons \/ UOld \/ UCheck \/ UFatal
    \/ ParallelDelete

Spec == Init /\ [][Next]_vars

----------------------------------------------------------------------------
(* The selection run twice over one snapshot: a dry run (main.go:115,        *)
(* README.md:157) followed by a second dry run of the same pipeline with the *)
(* same flags, blacklist and threshold                                       *)

TwiceInit == Init /\ ~cfgNotDryRun

(* the program is started again: a fresh JanitorMetadata / fresh locals *)
Rerun ==
    /\ pc = "Done" /\ run = 1
    /\ run' = 2
    /\ firstItems' = Items
    /\ jm' = IF variant = "janitor"
             THEN NewJanitorMetadata(cfgTooOld, cfgDeleteSingletons, cfgBlacklist, cfgDelimiter)
             ELSE UtilsArgs(cfgTooOld, cfgDeleteSingletons, cfgBlacklist, cfgDelimiter)
    /\ Items' = <<>>
    /\ prev' = <<>>
    /\ trace' = <<>>
    /\ pc' = IF variant = "janitor" THEN "Refresh" ELSE "List"
    /\ UNCHANGED <<cfgVars, engineInvoked, issued, evars, mvars>>

TwiceNext ==
    \/ JRefresh \/ JBlacklist \/ JSingletons \/ JExpired \/ JCheck
    \/ UList \/ USingletons \/ UOld \/ UCheck \/ UFatal
    \/ Rerun

TwiceSpec == TwiceInit /\ [][TwiceNext]_vars

----------------------------------------------------------------------------
(* Naming schemes: the three generations of the selection on listings of    *)
(* images whose names hold either delimiter or none, under either           *)
(* delimiter, as a dry run without blacklist                                *)

WideListing(c) ==
    \A i, j \in 1..Len(c) : i < j => c[i].name # c[j].name

NamingInit ==
    /\ variant \in {"janitor", "utils", "pairs"}
    /\ kind = "image"
    /\ cloud \in {c \in SeqsUpTo([name : WideNames, ts : {Stamp(0)}, zone : {""}], MaxItems) :
                      WideListing(c)}
    /\ cfgBlacklist = <<>>
    /\ cfgDeleteSingletons = FALSE
    /\ cfgNotDryRun = FALSE
    /\ cfgTooOld = 1
    /\ cfgDelimiter \in Delimiters
    /\ jm = IF variant = "janitor"
            THEN NewJanitorMetadata(cfgTooOld, cfgDeleteSingletons, cfgBlacklist, cfgDelimiter)
            ELSE IF variant = "utils"
            THEN UtilsArgs(cfgTooOld, cfgDeleteSingletons, cfgBlacklist, cfgDelimiter)
            ELSE PairsArgs(cfgTooOld, cfgDelimiter)
    /\ Items = <<>>
    /\ prev = <<>>
    /\ trace = <<>>
    /\ pc = IF variant = "janitor" THEN "Refresh" ELSE "List"
    /\ engineInvoked = FALSE
    /\ issued = <<>>
    /\ run = 1
    /\ firstItems = <<>>
    /\ EngineIdle
    /\ MainIdle

(* utils.go GetOldAndNonSingletonImages: the listing loop; a failed page    *)
(* request returns (nil, err)                                               *)
PList ==
    /\ variant = "pairs" /\ pc = "List"
    /\ \E ok \in BOOLEAN :
          IF ok THEN Stage("list", ListAll(cloud, kind), "Singletons")
          ELSE ReturnErr("ListError")

(* utils.go: nonSingletonImages := getNonSingletonImages(allImages, nameDelimiter) *)
PSingletons ==
    /\ variant = "pairs" /\ pc = "Singletons"
    /\ Stage("singleton", getNonSingletonPairs(Items, jm.NameDelimiter), "Old")

(* utils.go: getOldImages(nonSingletonImages, t), then return *)
POld ==
    /\ variant = "pairs" /\ pc = "Old"
    /\ LET r == getOld(Items, jm.ExpiredBefore)
       IN  IF r.err THEN ReturnErr("AgeError") ELSE Stage("age", r.items, "Returned")

NamingNext ==
    \/ JRefresh \/ JBlacklist \/ JSingletons \/ JExpired \/ JCheck
    \/ UList \/ USingletons \/ UOld \/ UCheck \/ UFatal
    \/ PList \/ PSingletons \/ POld

NamingSpec == NamingInit /\ [][NamingNext]_vars

----------------------------------------------------------------------------
(* The deletion engine: Parallel / ParallelImages / ParallelInstances and   *)
(* deleteWorker                                                             *)

(* No pipeline is running: the engine is studied on its own *)
PipelineIdle ==
    /\ variant = "janitor" /\ kind = "image" /\ cloud = <<>>
    /\ cfgBlacklist = <<>> /\ cfgDeleteSingletons = FALSE /\ cfgNotDryRun = TRUE
    /\ cfgTooOld = 0 /\ cfgDelimiter = "-"
    /\ jm = NewJanitorMetadata(cfgTooOld, cfgDeleteSingletons, cfgBlacklist, cfgDelimiter)
    /\ Items = <<>> /\ prev = <<>> /\ trace = <<>> /\ pc = "Parallel"
    /\ engineInvoked = TRUE /\ issued = <<>>
    /\ run = 1 /\ firstItems = <<>>

(* compute.Operation as a worker sees it: Status, and whether Error is set *)
NoOp == [status |-> "NONE", error |-> FALSE]
Pending == [status |-> "PENDING", error |-> FALSE]
Running == [status |-> "RUNNING", error |-> FALSE]
Done == [status |-> "DONE", error |-> FALSE]
DoneWithError == [status |-> "DONE", error |-> TRUE]
FailedOp == [status |-> "FAILED", error |-> TRUE]

(* Resource URLs as the API returns them, e.g. ".../zones/z1" *)
ZoneURL(z) == <<"zones", "/", z>>
RegionURL == <<"regions", "/", "r1">>

(* utils.GetResourceNameFromURL / sanitizeResourceURL *)
GetResourceNameFromURL(z) ==
    LET splitResource == Split(z, "/")
    IN  splitResource[Len(splitResource)]

(* What the delete responses of one engine run carry: Images.Delete returns *)
(* a global operation (neither Zone nor Region), Instances.Delete a zonal   *)
(* one (Zone); a response with Region, or with both, exercises the other    *)
(* branches of the worker.                                                  *)
RespScopes == {"global", "zone", "region", "zone+region"}

(* The zone of the instance job j deletes: in.Zone of the j-th element *)
JobZone(j) == Zones[((j - 1) % Len(Zones)) + 1]

(* The Zone and Region fields of the operation call.Do() returns for job j *)
DeleteResponse(j) ==
    [Zone |-> IF respScope \in {"zone", "zone+region"} THEN ZoneURL(JobZone(j)) ELSE <<>>,
     Region |-> IF respScope \in {"region", "zone+region"} THEN RegionURL ELSE <<>>]

NoEndpoint == [svc |-> "none", loc |-> <<>>]

(* A worker that always queries the global operations service *)
ResolveGlobalAlways(o) == [svc |-> "GlobalOperations", loc |-> <<>>]

(* if deleteOperation.Zone != "" {...} else if deleteOperation.Region != "" *)
(* {...} else {...}: the queryDeleteOperation built for the job              *)
ResolveEndpoint(o) ==
    IF o.Zone # <<>>
    THEN [svc |-> "ZoneOperations", loc |-> GetResourceNameFromURL(o.Zone)]
    ELSE IF o.Region # <<>>
    THEN [svc |-> "RegionOperations", loc |-> GetResourceNameFromURL(o.Region)]
    ELSE [svc |-> "GlobalOperations", loc |-> <<>>]

(* What the next status query can return for an operation last seen as o *)
NextSnapshots(o) ==
    IF o = Pending THEN {Pending, Running, Done, DoneWithError, FailedOp}
    ELSE IF o = Running THEN {Running, Done, DoneWithError, FailedOp}
    ELSE {o}

(* A worker that leaves the poll loop after its first status query *)
PollBreaksAlways(o) == TRUE

(* A worker that never leaves the poll loop *)
PollBreaksNever(o) == FALSE

(* A worker that leaves the poll loop as soon as the operation runs *)
PollBreaksEarly(o) == o.status \in {"RUNNING", "DONE"}

(* if deleteOperation.Status == "DONE" { break } *)
PollBreaks(o) == o.status = "DONE"

(* The engine at the entry of Parallel, its delete calls answering with    *)
(* one of the given kinds of operation                                     *)
EngineStart(scopes) ==
    /\ PipelineIdle
    /\ MainIdle
    /\ workers \in 0..MaxWorkers
    /\ jobs \in 0..MaxJobs
    /\ ePc = "start"
    /\ spawned = 0
    /\ queue = <<>>
    /\ closed = FALSE
    /\ sent = 0
    /\ wg = 0
    /\ wpc = [w \in Workers |-> "unstarted"]
    /\ wjob = [w \in Workers |-> 0]
    /\ op = [j \in Jobs |-> NoOp]
    /\ calls = [j \in Jobs |-> 0]
    /\ owner = [j \in Jobs |-> 0]
    /\ outcome = [j \in Jobs |-> "none"]
    /\ ret = "none"
    /\ takers = [j \in Jobs |-> {}]
    /\ actors = [j \in Jobs |-> {}]
    /\ lateQuery = [j \in Jobs |-> FALSE]
    /\ respScope \in scopes
    /\ endpoint = [j \in Jobs |-> NoEndpoint]

(* Parallel as main calls it: on images (global operations) or on          *)
(* instances (zonal operations)                                            *)
EngineInit == EngineStart({"global", "zone"})

EngineAlive == ePc \in {"start", "produce", "wait"}

(* A send on a channel whose buffer never counts as full *)
ChanNeverFull(q, capacity) == FALSE

(* A channel with room for one value more than there are workers *)
ChanFullOneSpare(q, capacity) == Len(q) >= capacity + 1

(* r := make(chan ResourceDeleter, workers): a send blocks while the buffer *)
(* holds capacity values                                                    *)
ChanFull(q, capacity) == Len(q) >= capacity

(* A receive that leaves the value in the channel *)
DequeuePeek(q) == q

(* a receive takes the oldest value out of the channel *)
Dequeue(q) == Tail(q)

(* A wait that returns whatever the counter is *)
WgWaitSkipped(n) == TRUE

(* wg.Wait() returns when the counter is zero *)
WgWait(n) == n = 0

Terminal(o) == o.status \in {"DONE", "FAILED"}

(* for i := 0; i < workers; i++ { wg.Add(1); go deleteWorker(...) } *)
Spawn ==
    /\ ePc = "start" /\ spawned < workers
    /\ spawned' = spawned + 1
    /\ wg' = wg + 1
    /\ wpc' = [wpc EXCEPT ![spawned + 1] = "recv"]
    /\ UNCHANGED <<pvars, mvars, workers, jobs, ePc, queue, closed, sent, wjob, op,
                   calls, owner, outcome, ret, hvars, qvars>>

(* the loop ends; i.Delete(r) (janitor) or the range loop over the list begins *)
BeginProduce ==
    /\ ePc = "start" /\ spawned = workers
    /\ ePc' = "produce"
    /\ UNCHANGED <<pvars, mvars, workers, jobs, spawned, queue, closed, sent, wg, wpc,
                   wjob, op, calls, owner, outcome, ret, hvars, qvars>>

(* d <- &DeleteMetadata{...}: blocks while the buffer holds workers values *)
Send ==
    /\ ePc = "produce" /\ sent < jobs
    /\ ~ChanFull(queue, workers)
    /\ queue' = Append(queue, sent + 1)
    /\ sent' = sent + 1
    /\ UNCHANGED <<pvars, mvars, workers, jobs, ePc, spawned, closed, wg, wpc, wjob, op,
                   calls, owner, outcome, ret, hvars, qvars>>

(* A producer that closes the channel before its last send *)
CloseEarly ==
    /\ ePc = "produce" /\ sent >= jobs - 1
    /\ closed' = TRUE
    /\ ePc' = "wait"
    /\ UNCHANGED <<pvars, mvars, workers, jobs, spawned, queue, sent, wg, wpc, wjob, op,
                   calls, owner, outcome, ret, hvars, qvars>>

(* close(d), then wg.Wait() *)
Close ==
    /\ ePc = "produce" /\ sent = jobs
    /\ closed' = TRUE
    /\ ePc' = "wait"
    /\ UNCHANGED <<pvars, mvars, workers, jobs, spawned, queue, sent, wg, wpc, wjob, op,
                   calls, owner, outcome, ret, hvars, qvars>>

(* for call := range resourceDeleteCalls: a value is received *)
Recv(w) ==
    /\ EngineAlive /\ wpc[w] = "recv" /\ queue # <<>>
    /\ wjob' = [wjob EXCEPT ![w] = Head(queue)]
    /\ owner' = [owner EXCEPT ![Head(queue)] = w]
    /\ takers' = [takers EXCEPT ![Head(queue)] = @ \cup {w}]
    /\ queue' = Dequeue(queue)
    /\ wpc' = [wpc EXCEPT ![w] = "call"]
    /\ UNCHANGED <<pvars, mvars, workers, jobs, ePc, spawned, closed, sent, wg, op,
                   calls, outcome, ret, actors, lateQuery, qvars>>

(* the range loop ends on a closed, drained channel; deferred wg.Done() *)
Stop(w) ==
    /\ EngineAlive /\ wpc[w] = "recv" /\ queue = <<>> /\ closed
    /\ wpc' = [wpc EXCEPT ![w] = "stopped"]
    /\ wg' = wg - 1
    /\ UNCHANGED <<pvars, mvars, workers, jobs, ePc, spawned, queue, closed, sent, wjob,
                   op, calls, owner, outcome, ret, hvars, qvars>>

(* deleteOperation, err := call.Do(); on success the status endpoint is     *)
(* resolved and the poll loop entered.                                      *)
CallOk(w) ==
    /\ EngineAlive /\ wpc[w] = "call"
    /\ \E o \in {Pending, Running} :
          op' = [op EXCEPT ![wjob[w]] = o]
    /\ calls' = [calls EXCEPT ![wjob[w]] = @ + 1]
    /\ actors' = [actors EXCEPT ![wjob[w]] = @ \cup {w}]
    /\ endpoint' = [endpoint EXCEPT ![wjob[w]] = ResolveEndpoint(DeleteResponse(wjob[w]))]
    /\ wpc' = [wpc EXCEPT ![w] = "sleep"]
    /\ UNCHANGED <<pvars, mvars, workers, jobs, ePc, spawned, queue, closed, sent, wg,
                   wjob, owner, outcome, ret, takers, lateQuery, respScope>>

(* call.Do() returned an error: log.Fatal ends the process *)
CallError(w) ==
    /\ EngineAlive /\ wpc[w] = "call"
    /\ calls' = [calls EXCEPT ![wjob[w]] = @ + 1]
    /\ actors' = [actors EXCEPT ![wjob[w]] = @ \cup {w}]
    /\ outcome' = [outcome EXCEPT ![wjob[w]] = "callError"]
    /\ ePc' = "exited"
    /\ UNCHANGED <<pvars, mvars, workers, jobs, spawned, queue, closed, sent, wg, wpc,
                   wjob, op, owner, ret, takers, lateQuery, qvars>>

(* toSleep, _ := time.ParseDuration("3s"); time.Sleep(toSleep) *)
Sleep(w) ==
    /\ EngineAlive /\ wpc[w] = "sleep"
    /\ wpc' = [wpc EXCEPT ![w] = "poll"]
    /\ UNCHANGED <<pvars, mvars, workers, jobs, ePc, spawned, queue, closed, sent, wg,
                   wjob, op, calls, owner, outcome, ret, hvars, qvars>>

(* deleteOperation, err = queryDeleteOperation.Do() with err == nil; break  *)
(* on DONE, then "Deleted resource" and the next receive; otherwise the     *)
(* next turn of the loop                                                    *)
PollOk(w) ==
    /\ EngineAlive /\ wpc[w] = "poll"
    /\ actors' = [actors EXCEPT ![wjob[w]] = @ \cup {w}]
    /\ lateQuery' = [lateQuery EXCEPT ![wjob[w]] = @ \/ Terminal(op[wjob[w]])]
    /\ \E o \in NextSnapshots(op[wjob[w]]) :
          /\ op' = [op EXCEPT ![wjob[w]] = o]
          /\ IF PollBreaks(o)
             THEN /\ outcome' = [outcome EXCEPT ![wjob[w]] = "deleted"]
                  /\ wpc' = [wpc EXCEPT ![w] = "recv"]
                  /\ wjob' = [wjob EXCEPT ![w] = 0]
             ELSE /\ wpc' = [wpc EXCEPT ![w] = "sleep"]
                  /\ UNCHANGED <<outcome, wjob>>
    /\ UNCHANGED <<pvars, mvars, workers, jobs, ePc, spawned, queue, closed, sent, wg,
                   calls, owner, ret, takers, qvars>>

(* the status query returned an error: the process ends in the error branch *)
PollError(w) ==
    /\ EngineAlive /\ wpc[w] = "poll"
    /\ actors' = [actors EXCEPT ![wjob[w]] = @ \cup {w}]
    /\ lateQuery' = [lateQuery EXCEPT ![wjob[w]] = @ \/ Terminal(op[wjob[w]])]
    /\ outcome' = [outcome EXCEPT ![wjob[w]] = "queryError"]
    /\ ePc' = "exited"
    /\ UNCHANGED <<pvars, mvars, workers, jobs, spawned, queue, closed, sent, wg, wpc,
                   wjob, op, calls, owner, ret, takers, qvars>>

(* wg.Wait() returns; return nil *)
Return ==
    /\ ePc = "wait" /\ WgWait(wg)
    /\ ePc' = "returned"
    /\ ret' = "nil"
    /\ UNCHANGED <<pvars, mvars, workers, jobs, spawned, queue, closed, sent, wg, wpc,
                   wjob, op, calls, owner, outcome, hvars, qvars>>

EngineNext ==
    \/ Spawn \/ BeginProduce \/ Send \/ Close \/ Return
    \/ \E w \in Workers : Recv(w)
    \/ \E w \in Workers : Stop(w)
    \/ \E w \in Workers : CallOk(w)
    \/ \E w \in Workers : CallError(w)
    \/ \E w \in Workers : Sleep(w)
    \/ \E w \in Workers : PollOk(w)
    \/ \E w \in Workers : PollError(w)

EngineSpec == EngineInit /\ [][EngineNext]_vars

(* One worker and any kind of operation in the responses: every branch of  *)
(* the endpoint resolution                                                 *)
EndpointInit == EngineStart(RespScopes) /\ workers = 1

EndpointSpec == EndpointInit /\ [][EngineNext]_vars

(* The engine when every delete call and every status query succeeds and    *)
(* no operation ends FAILED: the runs in which every operation can reach    *)
(* DONE. Parallel is called with workers >= 1.                              *)
EngineLiveInit == EngineInit /\ workers >= 1

PollOkLive(w) == PollOk(w) /\ op'[wjob[w]].status # "FAILED"

(* the status query that returns DONE *)
PollDone(w) == PollOk(w) /\ op'[wjob[w]].status = "DONE"

EngineLiveNext ==
    \/ Spawn \/ BeginProduce \/ Send \/ Close \/ Return
    \/ \E w \in Workers : Recv(w)
    \/ \E w \in Workers : Stop(w)
    \/ \E w \in Workers : CallOk(w)
    \/ \E w \in Workers : Sleep(w)
    \/ \E w \in Workers : PollOkLive(w)

(* The Go scheduler runs every runnable goroutine: the goroutine of Parallel *)
(* and each deleteWorker keep taking their next step; an operation that is   *)
(* queried again and again is eventually reported DONE.                      *)
EngineFairness ==
    /\ WF_vars(Spawn) /\ WF_vars(BeginProduce) /\ WF_vars(Send)
    /\ WF_vars(Close) /\ WF_vars(Return)
    /\ \A w \in 1..MaxWorkers :
          /\ WF_vars(w \in Workers /\ Recv(w))
          /\ WF_vars(w \in Workers /\ Stop(w))
          /\ WF_vars(w \in Workers /\ CallOk(w))
          /\ WF_vars(w \in Workers /\ Sleep(w))
          /\ WF_vars(w \in Workers /\ PollOkLive(w))
          /\ SF_vars(w \in Workers /\ PollDone(w))

(* The goroutines of one engine run, each taking its next step when it can; *)
(* what a delete call or a status query returns is up to the API.           *)
Scheduling ==
    /\ WF_vars(Spawn) /\ WF_vars(BeginProduce) /\ WF_vars(Send)
    /\ WF_vars(Close) /\ WF_vars(Return)
    /\ \A w \in 1..MaxWorkers :
          /\ WF_vars(w \in Workers /\ Recv(w))
          /\ WF_vars(w \in Workers /\ Stop(w))
          /\ WF_vars(w \in Workers /\ (CallOk(w) \/ CallError(w)))
          /\ WF_vars(w \in Workers /\ Sleep(w))
          /\ WF_vars(w \in Workers /\ (PollOk(w) \/ PollError(w)))

EngineFairSpec == EngineInit /\ [][EngineNext]_vars /\ Scheduling

EngineLiveSpec == EngineLiveInit /\ [][EngineLiveNext]_vars /\ EngineFairness

----------------------------------------------------------------------------
(* main: the image pipeline and the instance pipeline as two goroutines and *)
(* the WaitGroup main waits on. The selection of a pipeline is reduced to   *)
(* how it ends: with no eligible resource, with some, or in a log.Fatal.    *)

Kinds == {"image", "instance"}

(* A goroutine that returns without wg.Done() *)
WgDoneSkipped(n) == n

(* wg.Done() *)
WgDone(n) == n - 1

MainInit ==
    /\ variant \in {"janitor", "utils"}
    /\ cfgNotDryRun \in BOOLEAN
    /\ kind = "image" /\ cloud = <<>> /\ cfgBlacklist = <<>>
    /\ cfgDeleteSingletons = FALSE /\ cfgTooOld = 0 /\ cfgDelimiter = "-"
    /\ jm = NewJanitorMetadata(cfgTooOld, cfgDeleteSingletons, cfgBlacklist, cfgDelimiter)
    /\ Items = <<>> /\ prev = <<>> /\ trace = <<>> /\ pc = "idle"
    /\ engineInvoked = FALSE /\ issued = <<>>
    /\ run = 1 /\ firstItems = <<>>
    /\ EngineIdle
    /\ mPc = "start"
    /\ mWg = 0
    /\ gPc = [g \in Kinds |-> "unstarted"]
    /\ gItems = [g \in Kinds |-> "none"]
    /\ signals = [g \in Kinds |-> 0]

ProcessAlive == mPc \in {"start", "wait"}

(* wg.Add(2); go deleteImages(...); go deleteInstances(...); wg.Wait() begins *)
MainStart ==
    /\ mPc = "start"
    /\ mWg' = mWg + 2
    /\ gPc' = [g \in Kinds |-> "select"]
    /\ mPc' = "wait"
    /\ UNCHANGED <<pvars, evars, gItems, signals>>

(* the listing of pipeline g fails: log.Fatal in Refresh, or (nil, err) and *)
(* log.Fatalf in deleteImages / deleteInstances                             *)
GListFails(g) ==
    /\ ProcessAlive /\ gPc[g] = "select"
    /\ gPc' = [gPc EXCEPT ![g] = "listFailed"]
    /\ mPc' = "exited"
    /\ UNCHANGED <<pvars, evars, mWg, gItems, signals>>

(* a timestamp of pipeline g does not parse: log.Fatal in Expired, or       *)
(* (nil, err) and log.Fatalf in deleteImages / deleteInstances              *)
GAgeFails(g) ==
    /\ ProcessAlive /\ gPc[g] = "select"
    /\ gPc' = [gPc EXCEPT ![g] = "ageFailed"]
    /\ mPc' = "exited"
    /\ UNCHANGED <<pvars, evars, mWg, gItems, signals>>

(* Refresh, Blacklist, Singletons, Expired / GetOldAndNonSingleton... end   *)
(* with the eligible sequence                                               *)
GSelect(g) ==
    /\ ProcessAlive /\ gPc[g] = "select"
    /\ \E n \in {"empty", "nonempty"} : gItems' = [gItems EXCEPT ![g] = n]
    /\ gPc' = [gPc EXCEPT ![g] = "check"]
    /\ UNCHANGED <<pvars, evars, mPc, mWg, signals>>

(* janitor generation: if len(i.Items) == 0 { wg.Done(); return } *)
EarlyReturn(g) == variant = "janitor" /\ gItems[g] = "empty"

(* the rest of deleteImages / deleteInstances up to the engine call, or to  *)
(* wg.Done() when the engine is not called                                  *)
GCheck(g) ==
    /\ ProcessAlive /\ gPc[g] = "check"
    /\ IF ~EarlyReturn(g) /\ InvokesEngine(cfgNotDryRun)
       THEN /\ gPc' = [gPc EXCEPT ![g] = "engine"]
            /\ UNCHANGED <<mWg, signals>>
       ELSE /\ gPc' = [gPc EXCEPT ![g] = "finished"]
            /\ mWg' = WgDone(mWg)
            /\ signals' = [signals EXCEPT ![g] = @ + 1]
    /\ UNCHANGED <<pvars, evars, mPc, gItems>>

(* delete.Parallel... returned nil; the success line is logged; wg.Done()   *)
GEngineReturns(g) ==
    /\ ProcessAlive /\ gPc[g] = "engine"
    /\ gPc' = [gPc EXCEPT ![g] = "finished"]
    /\ mWg' = WgDone(mWg)
    /\ signals' = [signals EXCEPT ![g] = @ + 1]
    /\ UNCHANGED <<pvars, evars, mPc, gItems>>

(* a deleteWorker of pipeline g ended the process in log.Fatal *)
GEngineFatal(g) ==
    /\ ProcessAlive /\ gPc[g] = "engine"
    /\ gPc' = [gPc EXCEPT ![g] = "engineFatal"]
    /\ mPc' = "exited"
    /\ UNCHANGED <<pvars, evars, mWg, gItems, signals>>

(* wg.Wait() returns and main ends *)
MainReturn ==
    /\ mPc = "wait" /\ WgWait(mWg)
    /\ mPc' = "returned"
    /\ UNCHANGED <<pvars, evars, mWg, gPc, gItems, signals>>

MainNext ==
    \/ MainStart \/ MainReturn
    \/ \E g \in Kinds : GListFails(g)
    \/ \E g \in Kinds : GAgeFails(g)
    \/ \E g \in Kinds : GSelect(g)
    \/ \E g \in Kinds : GCheck(g)
    \/ \E g \in Kinds : GEngineReturns(g)
    \/ \E g \in Kinds : GEngineFatal(g)

(* Every goroutine takes its next step when it can; a selection ends (with  *)
(* a result or in log.Fatal) and an engine call ends (returns or log.Fatal) *)
MainFairness ==
    /\ WF_vars(MainStart) /\ WF_vars(MainReturn)
    /\ \A g \in Kinds :
          /\ WF_vars(GSelect(g) \/ GListFails(g) \/ GAgeFails(g))
          /\ WF_vars(GCheck(g))
          /\ WF_vars(GEngineReturns(g) \/ GEngineFatal(g))

MainSpec == MainInit /\ [][MainNext]_vars /\ MainFairness

----------------------------------------------------------------------------
(* Properties of the selection pipeline *)

(* The final eligible sequence has been computed *)
Selected == pc \in {"Check", "Parallel", "Done"}

Blacklisted(r) ==
    \E n \in 1..Len(cfgBlacklist) : MatchString(cfgBlacklist[n], r.name)

IsBefore(r, t) ==
    /\ ~ParseCreationTimestamp(r.ts).err
    /\ ParseCreationTimestamp(r.ts).stamp < t

Elems(s) == {s[i] : i \in 1..Len(s)}

OfScheme(s, key) == SelectSeq(s, LAMBDA r : Scheme(r, cfgDelimiter) = key)

RemoveAt(s, i) == SubSeq(s, 1, i-1) \o SubSeq(s, i+1, Len(s))

LastStage == IF trace = <<>> THEN "" ELSE trace[Len(trace)]

(* C1: a resource whose name matches at least one configured blacklist      *)
(* pattern is never in the final eligible sequence and never has a delete   *)
(* issued for it.                                                           *)
C1_BlacklistedNeverEligible ==
    /\ Selected => \A r \in Elems(Items) : ~Blacklisted(r)
    /\ \A r \in Elems(issued) : ~Blacklisted(r)

(* C2: after the keyed singleton stage, of every naming-scheme group of     *)
(* size >= 2 that entered the stage exactly one member is held back, that   *)
(* member has the newest creation time of the group, and all others are     *)
(* passed on as candidates.                                                 *)
C2_NewestOfGroupRetained ==
    (LastStage = "singleton") =>
        \A key \in {Scheme(r, cfgDelimiter) : r \in Elems(prev)} :
            LET G == OfScheme(prev, key)
                C == OfScheme(Items, key)
            IN  Len(G) >= 2 =>
                    \E i \in 1..Len(G) :
                        /\ C = RemoveAt(G, i)
                        /\ \A j \in 1..Len(G) : Newer(G[i], G[j])

(* C3: with deleteSingletons = false, the only listed member of a naming    *)
(* scheme is never eligible and never has a delete issued for it.           *)
SoleOfScheme(r) ==
    Len(OfScheme(ListAll(cloud, kind), Scheme(r, cfgDelimiter))) = 1

C3_SingletonNeverEligible ==
    ~cfgDeleteSingletons =>
        /\ Selected => \A r \in Elems(Items) : ~SoleOfScheme(r)
        /\ \A r \in Elems(issued) : ~SoleOfScheme(r)

(* C4: with deleteSingletons = true the singleton stage is skipped: what    *)
(* enters the age stage is exactly what survived the blacklist stage.       *)
C4_SingletonStageSkipped ==
    (cfgDeleteSingletons /\ pc \in {"Expired", "Old"}) => Items = prev

(* C5: after JanitorMetadata.Expired, Items holds exactly the candidates    *)
(* that entered with a creation time strictly before ExpiredBefore, and no  *)
(* other candidate is handed to the deletion engine.                        *)
C5_ExpiredKeepsOnlyOld ==
    variant = "janitor" =>
        /\ (pc = "Check") =>
               Items = SelectSeq(prev, LAMBDA r : IsBefore(r, jm.ExpiredBefore))
        /\ \A r \in Elems(issued) : IsBefore(r, jm.ExpiredBefore)

(* C6: getOldImages / getOldInstances return exactly the candidates, in     *)
(* input order, whose creation time is strictly before t; a candidate whose *)
(* creation time equals t is not returned.                                  *)
C6_GetOldStrict ==
    (variant = "utils" /\ pc = "Check") =>
        /\ Items = SelectSeq(prev, LAMBDA r : IsBefore(r, cfgTooOld))
        /\ \A r \in Elems(Items) : r.ts # Stamp(cfgTooOld)

C6_Witness ==
    /\ variant = "utils" /\ pc = "Check"
    /\ \E r \in Elems(prev) : r.ts = Stamp(cfgTooOld)
    /\ \E r \in Elems(prev) : ParseCreationTimestamp(r.ts).stamp > cfgTooOld
    /\ Len(Items) >= 1

(* C8: in a dry run the deletion engine is never invoked and no delete is   *)
(* issued, while the listing and every filter stage run as usual.           *)
FullTrace ==
    IF variant = "janitor"
    THEN <<"list", "blacklist", "singleton", "age">>
    ELSE <<"list+blacklist", IF cfgDeleteSingletons THEN "skip" ELSE "singleton", "age">>

C8_DryRunNeverDeletes ==
    ~cfgNotDryRun =>
        /\ ~engineInvoked /\ issued = <<>> /\ pc # "Parallel"
        /\ (pc = "Done") => trace = FullTrace

C8_Witness ==
    ~cfgNotDryRun /\ pc = "Done" /\ Len(Items) >= 1 /\ trace = FullTrace

----------------------------------------------------------------------------
(* Properties of the deletion engine *)

(* Operations in flight: the delete was issued and no status query has yet *)
(* returned a terminal status for it.                                      *)
InFlight == {j \in Jobs : op[j].status \in {"PENDING", "RUNNING"}}

(* A job failed: its delete call or a status query returned an error, or  *)
(* its operation ended FAILED or DONE with Error set.                     *)
JobFailed(j) ==
    \/ outcome[j] \in {"callError", "queryError"}
    \/ op[j].status = "FAILED"
    \/ op[j].status = "DONE" /\ op[j].error

(* C7: with W >= 1 workers at most W operations are in flight at any time, *)
(* and no worker has issued a further delete while an operation it started *)
(* is still in flight.                                                     *)
C7_AtMostWInFlight ==
    workers >= 1 =>
        /\ Cardinality(InFlight) <= workers
        /\ \A w \in Workers :
              Cardinality({j \in InFlight : owner[j] = w}) <= 1

C7_Witness ==
    /\ workers >= 1 /\ jobs > workers
    /\ Cardinality(InFlight) = workers
    /\ \E j \in Jobs : outcome[j] = "deleted"
    /\ queue # <<>>

(* C9: the engine returns a non-nil error whenever at least one job        *)
(* failed, and nil only when every job succeeded.                          *)
C9_ErrorIffJobFailed ==
    /\ (ePc = "returned") => (ret = "error" <=> \E j \in Jobs : JobFailed(j))
    /\ (ePc = "exited") => ret = "error"

(* C10: a delete-call error is a failure of that job alone: the process    *)
(* keeps running, the worker that saw it abandons the job and goes back to *)
(* the queue.                                                              *)
C10_CallErrorIsPerJob ==
    \A j \in Jobs :
        outcome[j] = "callError" =>
            /\ ePc # "exited"
            /\ wjob[owner[j]] # j

(* C11: when a status query of job j's operation reports FAILED the engine *)
(* records an operation failure for j and the worker leaves j, so that the *)
(* other jobs are still received, polled to DONE and the engine returns.   *)
C11_FailedPollReported ==
    \A j \in Jobs :
        op[j].status = "FAILED" =>
            /\ outcome[j] = "operationFailure"
            /\ \A w \in Workers : wjob[w] # j

(* C12: DONE and FAILED are terminal: once a status query of an operation  *)
(* has returned DONE or FAILED no further status query is made for it.     *)
C12_NoQueryAfterTerminal ==
    \A j \in Jobs : ~lateQuery[j]

(* C13: C13_PollLoopEnds: no worker polls one operation forever: a worker that is in the   *)
(* poll loop leaves it (the job reported deleted or timed out) and goes    *)
(* back to the channel, whatever the operation does.                       *)
Polling(w) == w \in Workers /\ wpc[w] \in {"sleep", "poll"}

C13_PollLoopEnds ==
    \A w \in 1..MaxWorkers :
        [](Polling(w) => <>(ePc = "exited" \/ ~Polling(w)))

(* C14: Parallel returns only after every worker has exited; when it       *)
(* returns every job sent has been received and no operation is being      *)
(* polled.                                                                 *)
C14_Barrier ==
    (ePc = "returned") =>
        /\ \A w \in Workers : wpc[w] = "stopped" /\ wjob[w] = 0
        /\ queue = <<>>
        /\ \A j \in 1..sent : takers[j] # {}
        /\ InFlight = {}

C14_Witness ==
    /\ ePc = "returned" /\ workers >= 2 /\ jobs > workers
    /\ \A j \in Jobs : outcome[j] = "deleted"
    /\ \E j \in Jobs : op[j] = DoneWithError

(* C15: with workers >= 1 and any number of jobs, when every delete call   *)
(* succeeds and every operation is eventually reported DONE, the producer  *)
(* sends every job and closes the channel, every worker drains it and      *)
(* exits, and Parallel returns.                                            *)
C15_EngineTerminates ==
    <>(/\ ePc = "returned"
       /\ sent = jobs /\ closed /\ queue = <<>>
       /\ \A w \in Workers : wpc[w] = "stopped"
       /\ \A j \in Jobs : outcome[j] = "deleted")

C15_Witness ==
    /\ ePc = "returned" /\ ret = "nil" /\ jobs > workers
    /\ \A j \in Jobs : outcome[j] = "deleted" /\ op[j] = Done

(* C16: every job is received by exactly one worker, its delete call is    *)
(* issued once, and the delete call and every status query of its          *)
(* operation are made by the worker that received it.                      *)
C16_ExclusiveOwnership ==
    \A j \in Jobs :
        /\ Cardinality(takers[j]) <= 1
        /\ (j <= sent /\ \A n \in 1..Len(queue) : queue[n] # j)
               => Cardinality(takers[j]) = 1
        /\ calls[j] <= 1
        /\ actors[j] \subseteq takers[j]
        /\ Cardinality({w \in Workers : wjob[w] = j}) <= 1

C16_Witness ==
    /\ workers >= 2 /\ jobs > workers
    /\ \A j \in Jobs : calls[j] = 1 /\ outcome[j] = "deleted" /\ Cardinality(actors[j]) = 1
    /\ \E i, j \in Jobs : takers[i] # takers[j]

(* C17: the channel never holds more than workers jobs, a send is not      *)
(* possible while it holds workers jobs, and the jobs sent and not yet     *)
(* finished number at most 2 * workers.                                    *)
Finished == {j \in Jobs : outcome[j] # "none"}

C17_Backpressure ==
    /\ Len(queue) <= workers
    /\ (Len(queue) = workers) => ~ENABLED Send
    /\ sent - Cardinality(Finished) <= 2 * workers

C17_Witness ==
    /\ workers >= 1 /\ ePc = "produce" /\ sent < jobs
    /\ Len(queue) = workers
    /\ sent - Cardinality(Finished) = 2 * workers
    /\ \A w \in Workers : wpc[w] \in {"sleep", "poll"}

----------------------------------------------------------------------------
(* Properties of the stages in combination *)

IsPrefix(s, t) == Len(s) <= Len(t) /\ s = SubSeq(t, 1, Len(s))

Listed == Elems(ListAll(cloud, kind))

SingletonStageRan == \E n \in 1..Len(trace) : trace[n] = "singleton"

(* r is not blacklisted, and the listing holds other resources of r's     *)
(* naming scheme, every one of them blacklisted                           *)
AloneAfterBlacklist(r) ==
    /\ ~Blacklisted(r)
    /\ \E q \in Listed : q # r /\ Scheme(q, cfgDelimiter) = Scheme(r, cfgDelimiter)
    /\ \A q \in Listed :
          (q # r /\ Scheme(q, cfgDelimiter) = Scheme(r, cfgDelimiter))
              => Blacklisted(q)

(* C18: the stages run in the order blacklist, singleton, age in every    *)
(* run, and the singleton stage groups the blacklist survivors only: with *)
(* deleteSingletons = false a resource whose same-scheme companions are   *)
(* all blacklisted is held back as a singleton, never a candidate.        *)
C18_GroupingAfterBlacklist ==
    /\ IsPrefix(trace, FullTrace)
    /\ (~cfgDeleteSingletons /\ SingletonStageRan) =>
           \A r \in Listed :
               AloneAfterBlacklist(r) => r \notin (Elems(Items) \cup Elems(issued))

Swap(s, i, j) ==
    [k \in 1..Len(s) |-> IF k = i THEN s[j] ELSE IF k = j THEN s[i] ELSE s[k]]

(* C19: the candidates the keyed singleton stage produces do not depend   *)
(* on the order of its input: exchanging any two elements of the input    *)
(* gives the same set of candidates.                                      *)
C19_SingletonOrderIndependent ==
    (LastStage = "singleton") =>
        \A i, j \in 1..Len(prev) :
            Elems(getNonSingleton(Swap(prev, i, j), jm.NameDelimiter)) = Elems(Items)

(* C20: with a non-empty pattern set the blacklist stage passes on        *)
(* exactly the listed resources whose name matches none of the patterns.  *)
C20_BlacklistRemovesIffMatch ==
    (cfgBlacklist # <<>> /\ LastStage \in {"blacklist", "list+blacklist"}) =>
        Elems(Items) = {r \in Listed : ~Blacklisted(r)}

(* C21: with an empty blacklist pattern set the blacklist stage passes on *)
(* the listed sequence unchanged, same elements in the same order, in     *)
(* both generations.                                                      *)
C21_EmptyBlacklistNoOp ==
    (cfgBlacklist = <<>> /\ LastStage \in {"blacklist", "list+blacklist"}) =>
        Items = ListAll(cloud, kind)

(* C27: the lister follows the page chain to its end: the listed sequence *)
(* is the concatenation of all pages in the order returned, for instances *)
(* zone by zone, nothing dropped and nothing duplicated.                  *)
C27_ListerComplete ==
    (LastStage = "list") =>
        /\ Items = cloud
        /\ \A z \in ZoneSet : InZone(Items, z) = InZone(cloud, z)

C27_Witness ==
    /\ LastStage = "list"
    /\ Len(Chunk(cloud, PageSize)) >= 2
    /\ Len(Items) = MaxItems

(* The records of one stage about resource r *)
RecordsAbout(log, r) == SelectSeq(log, LAMBDA rec : rec.res = r)

Occurrences(s, r) == SelectSeq(s, LAMBDA x : x = r)

StageLog ==
    IF LastStage = "blacklist" THEN BlacklistLog(prev, jm.BlacklistPatterns)
    ELSE IF LastStage = "singleton" THEN SingletonsLog(prev, jm)
    ELSE IF LastStage = "age" THEN ExpiredLog(prev, jm, kind)
    ELSE <<>>

(* C28: every stage of the janitor generation emits exactly one decision  *)
(* record for every resource that entered it, blacklist survivors         *)
(* included.                                                              *)
C28_OneRecordPerResource ==
    (variant = "janitor" /\ LastStage \in {"blacklist", "singleton", "age"}) =>
        \A r \in Elems(prev) :
            Len(RecordsAbout(StageLog, r)) = Len(Occurrences(prev, r))

(* The run ended while listing: no stage has been recorded *)
ListFailed == trace = <<>> /\ pc \in {"Fatal", "ListError", "MainFatal"}

(* C23: a listing is all-or-nothing: when a page request fails the lister *)
(* returns an error to its caller without ending the process itself, and  *)
(* no resource of the earlier pages reaches a stage or the engine.        *)
C23_ListErrorReturned ==
    ListFailed => (pc # "Fatal" /\ Items = <<>> /\ issued = <<>>)

(* C24: a candidate whose creationTimestamp does not parse is left out of *)
(* the eligible set and nothing else changes: the age stage does not end  *)
(* the run, and it passes on every other candidate older than the         *)
(* threshold.                                                             *)
C24_BadTimestampOnlyExcluded ==
    /\ (LastStage \in {"singleton", "skip"}) => pc \in {"Expired", "Old"}
    /\ (LastStage = "age") =>
           Items = SelectSeq(prev, LAMBDA r : IsBefore(r, jm.ExpiredBefore))

(* C25: a status-query error is a failure of that job alone: the process  *)
(* keeps running, the worker that saw it abandons the job and goes back   *)
(* to the queue.                                                          *)
C25_QueryErrorIsPerJob ==
    \A j \in Jobs :
        outcome[j] = "queryError" =>
            /\ ePc # "exited"
            /\ wjob[owner[j]] # j

----------------------------------------------------------------------------
(* Properties of main and its two pipelines *)

(* C22: a failed listing ends the pipeline of its own kind only: the      *)
(* process keeps running and the pipeline of the other kind goes on to    *)
(* its end.                                                               *)
C22_ListFailureEndsOneKind ==
    \A g \in Kinds : gPc[g] = "listFailed" => mPc # "exited"

(* C29: main returns only after both pipelines have finished, each having *)
(* called wg.Done() exactly once whichever path it took, and main does    *)
(* end: it returns, unless a log.Fatal ended the process.                 *)
SignalsOnce ==
    /\ \A g \in Kinds : signals[g] <= 1
    /\ \A g \in Kinds : (gPc[g] = "finished") <=> (signals[g] = 1)
    /\ (mPc = "returned") => \A g \in Kinds : gPc[g] = "finished"

----------------------------------------------------------------------------
(* Properties of the status endpoint *)

(* The endpoint resolved for job j from the response of its delete call *)
Resolved(j) ==
    /\ (op[j] = NoOp) <=> (endpoint[j] = NoEndpoint)
    /\ (op[j] # NoOp) =>
          /\ (respScope \in {"zone", "zone+region"}) =>
                 endpoint[j] = [svc |-> "ZoneOperations", loc |-> <<JobZone(j)>>]
          /\ (respScope = "region") =>
                 endpoint[j] = [svc |-> "RegionOperations", loc |-> <<"r1">>]
          /\ (respScope = "global") =>
                 endpoint[j] = [svc |-> "GlobalOperations", loc |-> <<>>]

(* C30: after a successful delete call the worker has one status endpoint *)
(* for the job, the one every status query of the job is sent to, and it  *)
(* never changes: the zone endpoint when the response carries a zone,     *)
(* else the region endpoint when it carries a region, else the global     *)
(* endpoint; image jobs (global operations) are polled at the global      *)
(* endpoint, instance jobs (zonal operations) at the zone endpoint of the *)
(* instance's zone.                                                       *)
C30_EndpointResolution ==
    /\ [](\A j \in Jobs : Resolved(j))
    /\ [][\A j \in Jobs : endpoint[j] # NoEndpoint => endpoint'[j] = endpoint[j]]_vars

C30_Witness ==
    /\ respScope = "zone" /\ jobs >= 2
    /\ \A j \in Jobs : outcome[j] = "deleted" /\ lateQuery[j] = FALSE
    /\ endpoint[1].loc # endpoint[2].loc

----------------------------------------------------------------------------
(* Properties of the naming scheme *)

(* The name with its final delimiter-separated segment stripped: what       *)
(* precedes the last occurrence of d, nothing when d does not occur         *)
LastIndex(name, d) ==
    IF \E i \in 1..Len(name) : name[i] = d
    THEN CHOOSE i \in 1..Len(name) :
             name[i] = d /\ \A k \in (i+1)..Len(name) : name[k] # d
    ELSE 0

NamingScheme(name, d) ==
    IF LastIndex(name, d) <= 1 THEN <<>> ELSE SubSeq(name, 1, LastIndex(name, d) - 1)

DelimiterFree(name, d) == \A i \in 1..Len(name) : name[i] # d

(* What the singleton stage of generation v compares for two names *)
TreatedAsSame(v, a, b, d) ==
    IF v = "pairs" THEN resourceNamesMatch(a, b, d)
    ELSE GetResourceBasename(a, d) = GetResourceBasename(b, d)

SingletonDone == trace # <<>> /\ trace[Len(trace)] = "singleton"

(* C31: in every generation, under every configured delimiter, the         *)
(* singleton stage treats two resources as sharing a naming scheme iff     *)
(* their names with the final segment (split on the configured delimiter)  *)
(* stripped are equal.                                                     *)
C31_GroupingUsesDelimiter ==
    SingletonDone =>
        \A i, j \in 1..Len(prev) :
            TreatedAsSame(variant, prev[i].name, prev[j].name, cfgDelimiter)
                <=> (NamingScheme(prev[i].name, cfgDelimiter)
                         = NamingScheme(prev[j].name, cfgDelimiter))

InItems(r) == \E n \in 1..Len(Items) : Items[n] = r

FreeOf(list, d) == {i \in 1..Len(list) : DelimiterFree(list[i].name, d)}

(* C35: in the keyed singleton stage every name without the delimiter has  *)
(* the empty naming-scheme key, so the delimiter-free names form one group:*)
(* the first of them encountered is kept out of the result and every later *)
(* one is a deletion candidate.                                            *)
C35_DelimiterFreeOneGroup ==
    (SingletonDone /\ variant \in {"janitor", "utils"}) =>
        \A i \in FreeOf(prev, cfgDelimiter) :
            /\ Scheme(prev[i], cfgDelimiter) = <<>>
            /\ InItems(prev[i]) <=> \E j \in FreeOf(prev, cfgDelimiter) : j < i

C35_Witness ==
    /\ SingletonDone /\ variant \in {"janitor", "utils"}
    /\ Cardinality(FreeOf(prev, cfgDelimiter)) >= 2
    /\ \E i \in FreeOf(prev, cfgDelimiter) : InItems(prev[i])
    /\ \E i \in 1..Len(prev) : i \notin FreeOf(prev, cfgDelimiter)

(* Resources of one naming scheme are next to each other in the list *)
Contiguous(list, d) ==
    \A i, j, k \in 1..Len(list) :
        (i < k /\ k < j /\ NamingScheme(list[i].name, d) = NamingScheme(list[j].name, d))
            => NamingScheme(list[k].name, d) = NamingScheme(list[i].name, d)

(* C36: adjacent-pair singleton stage: on a list whose naming-scheme       *)
(* groups are contiguous the result holds every member of a group except   *)
(* the last of the group in list order, hence all but one of a group of    *)
(* two or more and no member of a group of one.                            *)
C36_AdjacentPairsKeepLast ==
    (SingletonDone /\ variant = "pairs" /\ Contiguous(prev, cfgDelimiter)) =>
        \A i \in 1..Len(prev) :
            InItems(prev[i]) <=>
                \E j \in (i+1)..Len(prev) :
                    NamingScheme(prev[j].name, cfgDelimiter)
                        = NamingScheme(prev[i].name, cfgDelimiter)

----------------------------------------------------------------------------
(* Properties of the blacklist output, the producer and the workers' reports *)

NoDuplicates(s) == \A i, j \in 1..Len(s) : i < j => s[i] # s[j]

(* C32: the output of the blacklist stage is a subsequence of the listed   *)
(* sequence: no resource occurs twice in it, the order is the listed one,  *)
(* and every resource that matches no pattern occurs in it exactly once.   *)
C32_BlacklistOutputSubsequence ==
    (LastStage \in {"blacklist", "list+blacklist"}) =>
        /\ NoDuplicates(Items)
        /\ Items = SelectSeq(ListAll(cloud, kind), LAMBDA r : r \in Elems(Items))
        /\ \A r \in Listed : ~Blacklisted(r) => Len(Occurrences(Items, r)) = 1

(* Job j stands for the j-th element of the eligible sequence. *)
ProducerInOrder ==
    /\ sent <= jobs
    /\ queue = [k \in 1..Len(queue) |-> sent - Len(queue) + k]
    /\ closed => sent = jobs
    /\ \A j \in Jobs : calls[j] <= 1 /\ (calls[j] = 1 => j <= sent)
    /\ (ePc = "returned") => \A j \in Jobs : calls[j] = 1

(* C33: the producer enqueues one job per element of the eligible         *)
(* sequence, in order, and closes the queue once, after the last enqueue; *)
(* nothing is sent after the close; no job has more than one delete call  *)
(* and when the engine returns every job has had exactly one.             *)
C33_JobsEqualEligible ==
    /\ []ProducerInOrder
    /\ [][closed => (closed' /\ sent' = sent /\ Len(queue') <= Len(queue)
                        /\ ePc' # "produce")]_vars

C33_Witness ==
    /\ ePc = "returned" /\ jobs >= 2 /\ closed
    /\ \A j \in Jobs : calls[j] = 1 /\ outcome[j] = "deleted"

(* C34: a job is reported deleted only by a status query of the worker     *)
(* holding it that returns DONE, and a worker queries only after the       *)
(* delete call of its job was made.                                        *)
C34_DeletedOnlyAfterDone ==
    /\ [](\A j \in Jobs : outcome[j] = "deleted" => op[j].status = "DONE" /\ calls[j] = 1)
    /\ [](\A w \in Workers : wpc[w] \in {"sleep", "poll"} =>
              calls[wjob[w]] = 1 /\ op[wjob[w]] # NoOp)
    /\ [][\A j \in Jobs :
              (outcome[j] # "deleted" /\ outcome'[j] = "deleted") =>
                  \E w \in Workers :
                      wpc[w] = "poll" /\ wjob[w] = j /\ op'[j].status = "DONE"]_vars

C34_Witness ==
    /\ \E j \in Jobs : outcome[j] = "deleted"
    /\ \E w \in Workers : wpc[w] = "sleep" /\ op[wjob[w]] = Running

(* C37: with workers = 0 no worker is started and the channel has no       *)
(* buffer: with at least one job the producer stays blocked in its first   *)
(* send and Parallel never returns; with no job Parallel runs through to   *)
(* its return without blocking.                                            *)
C37_ZeroWorkers ==
    (workers = 0) =>
        /\ spawned = 0 /\ wg = 0
        /\ (jobs >= 1) => /\ sent = 0 /\ ~closed
                          /\ ePc \in {"start", "produce"}
                          /\ (ePc = "produce") => ~ENABLED EngineNext
        /\ (jobs = 0) => /\ ePc \in {"start", "produce", "wait", "returned"}
                         /\ (ePc # "returned") => ENABLED EngineNext

C37_Witness == workers = 0 /\ jobs >= 1 /\ ePc = "produce" /\ sent = 0

====
